---- MODULE Spec2Model ----
(***************************************************************************)
(* Link-scheduling simulator (rnetv): the three discrete-time schedulers   *)
(* DRR (schedulers/drr.rs), WRR (schedulers/wrr.rs), WFQ                   *)
(* (schedulers/wfq.rs), their flow queues (flow.rs, scheduling/flow.rs)    *)
(* and egress resources (OutputLink in drr.rs, Port in scheduling/mod.rs). *)
(*                                                                         *)
(* A packet is the record [id, len, arr]: id is Packet::index (packet.rs)  *)
(* or Packet::name (scheduling/mod.rs), arr is Packet::arrival_time or the *)
(* second component of a (Packet, usize) pair of packet_states.            *)
(* Sequences are 1-based; flow indices written to the DRR history are the  *)
(* code's 0-based indices.                                                 *)
(***************************************************************************)
EXTENDS Integers, Sequences, FiniteSets

VARIABLES
    kind,               \* which scheduler this run is: "DRR", "WRR" or "WFQ"
    pc,                 \* position of run(): "tick", "schedule", "rest", "done";
                        \* "panicked" (WRR ceiling), "pop_panicked" (pop of an empty flow)
    i,                  \* loop index of DRRScheduler::schedule (1-based)
    timer,              \* <scheduler>.timer
    loaded,             \* the packets given to each flow, in insertion order
    flows,              \* <scheduler>.flows: per flow its packet queue
    weights,            \* <scheduler>.weights
    deficit_counters,   \* DRRScheduler.deficit_counters
    current_weight,     \* WRRScheduler.current_weight
    capacity,           \* OutputLink.capacity
    current_load,       \* OutputLink.current_load
    history,            \* OutputLink.history: <<flow index, packet index>>
    rate,               \* Port.rate
    in_queue,           \* Port.in_queue
    out_queue,          \* Port.out_queue
    current_processed   \* Port.current_processed

vars == <<kind, pc, i, timer, loaded, flows, weights, deficit_counters,
          current_weight, capacity, current_load, history, rate, in_queue,
          out_queue, current_processed>>

(***************************************************************************)
(* Bounds of the explored workloads.                                       *)
(***************************************************************************)
MaxFlows == 2
MaxPkts == 2
MaxTimer == 16

Lengths == {1, 2}
Arrivals == {0, 1}
Weights == {1, 2}
Capacities == {1, 2}

\* wrr.rs: `if self.timer > 100 { panic!(...) }`
Ceiling == 100

(***************************************************************************)
(* Flow queues.                                                            *)
(***************************************************************************)
\* insert_sorted with the comparison reversed at equal arrival times: the
\* sort is no longer stable.
RECURSIVE insert_sorted_unstable(_, _)
insert_sorted_unstable(q, x) ==
    IF q = <<>> THEN <<x>>
    ELSE IF Head(q).arr < x.arr THEN <<Head(q)>> \o insert_sorted_unstable(Tail(q), x)
    ELSE <<x>> \o q

\* One step of a stable sort: x goes after every element whose arrival
\* time is not greater than its own.
RECURSIVE insert_sorted(_, _)
insert_sorted(q, x) ==
    IF q = <<>> THEN <<x>>
    ELSE IF Head(q).arr <= x.arr THEN <<Head(q)>> \o insert_sorted(Tail(q), x)
    ELSE <<x>> \o q

\* Vec::sort_by(|a, b| a.arrival.cmp(&b.arrival)): a stable sort.
RECURSIVE sort_by_arrival(_)
sort_by_arrival(q) ==
    IF Len(q) <= 1 THEN q
    ELSE insert_sorted(sort_by_arrival(SubSeq(q, 1, Len(q) - 1)), q[Len(q)])

\* Flow::add_packet (flow.rs): push, then sort by arrival time.
add_packet(q, packet) == sort_by_arrival(Append(q, packet))

\* VariableLengthFlow::packet_arrive: push (packet, time), then sort.
packet_arrive(q, name, len, time) ==
    sort_by_arrival(Append(q, [id |-> name, len |-> len, arr |-> time]))

\* FixedLengthFlow::add_packet: the packet gets the flow's packet_len.
fixed_add_packet(q, packet_len, name, arrive_time) ==
    sort_by_arrival(Append(q, [id |-> name, len |-> packet_len, arr |-> arrive_time]))

\* pop_packet that returns the head without removing it.
pop_packet_keep(q) == q

\* pop_packet: Vec::remove(0).
pop_packet(q) == Tail(q)

\* Vec::remove(0) panics when the vector is empty.
pop_panics(q) == q = <<>>

\* A peek that ignores the time.
peek_packet_any(q, time) == IF q # <<>> THEN <<Head(q)>> ELSE <<>>

\* peek_packet(time): Some(head) if the head has arrived, else None.
\* The Option is a sequence of length at most one.
peek_packet(q, time) ==
    IF q # <<>> /\ Head(q).arr <= time THEN <<Head(q)>> ELSE <<>>

\* flows.iter().all(|f| f.empty())
all_empty(fl) == \A f \in 1..Len(fl) : fl[f] = <<>>

(***************************************************************************)
(* Egress resources.                                                       *)
(***************************************************************************)
\* OutputLink::tick
link_tick(load, cap) == IF load >= cap THEN load - cap ELSE load

\* A port that accepts a packet only when it holds none.
submit_if_idle(inq, packet) == IF inq = <<>> THEN Append(inq, packet) ELSE inq

\* Port::submit
submit(inq, packet) == Append(inq, packet)

\* Port::tick
port_tick(inq, outq, processed, r) ==
    IF inq # <<>>
    THEN IF processed + r >= Head(inq).len
         THEN [in_queue |-> Tail(inq), out_queue |-> Append(outq, Head(inq)),
               current_processed |-> 0]
         ELSE [in_queue |-> inq, out_queue |-> outq,
               current_processed |-> processed + r]
    ELSE [in_queue |-> inq, out_queue |-> outq, current_processed |-> processed]

\* Port::proceed_rest
proceed_rest(inq, outq) ==
    [in_queue |-> <<>>, out_queue |-> outq \o inq, current_processed |-> 0]

\* The Packet {name, len} handed to the port: the pair's first component.
port_packet(p) == [id |-> p.id, len |-> p.len]

(***************************************************************************)
(* Workloads: what the caller loads before run().                          *)
(***************************************************************************)
\* All ways to give nf flows at most `budget` packets in total, each packet
\* drawn from `choices`; a flow's packets are listed in insertion order.
RECURSIVE FlowSets(_, _, _)
FlowSets(nf, budget, choices) ==
    IF nf = 0 THEN {<<>>}
    ELSE UNION {{Append(rest, s) : rest \in FlowSets(nf - 1, budget - n, choices),
                                   s \in [1..n -> choices]} : n \in 0..budget}

Workloads == UNION {FlowSets(nf, MaxPkts, [len : Lengths, arr : Arrivals]) :
                    nf \in 1..MaxFlows}

ArrivalLoads == UNION {FlowSets(nf, MaxPkts, Arrivals) : nf \in 1..MaxFlows}

\* Packet::new(index, len, arrival_time), index = position of insertion.
drr_packets(wl) ==
    [f \in 1..Len(wl) |->
        [k \in 1..Len(wl[f]) |-> [id |-> k - 1, len |-> wl[f][k].len, arr |-> wl[f][k].arr]]]

\* Packet::new(name, len) given a name that is unique in the run.
wfq_packets(wl) ==
    [f \in 1..Len(wl) |->
        [k \in 1..Len(wl[f]) |-> [id |-> 10 * f + k, len |-> wl[f][k].len, arr |-> wl[f][k].arr]]]

\* FixedLengthFlow::new(packet_len) and add_packet(name, arrive_time).
wrr_packets(al, plen) ==
    [f \in 1..Len(al) |->
        [k \in 1..Len(al[f]) |-> [id |-> 10 * f + k, len |-> plen[f], arr |-> al[f][k]]]]

\* A flow built by Flow::new() and one add_packet per packet.
RECURSIVE drr_flow(_)
drr_flow(ps) ==
    IF ps = <<>> THEN <<>>
    ELSE add_packet(drr_flow(SubSeq(ps, 1, Len(ps) - 1)), ps[Len(ps)])

\* A flow built by VariableLengthFlow::new() and one packet_arrive per packet.
RECURSIVE wfq_flow(_)
wfq_flow(ps) ==
    IF ps = <<>> THEN <<>>
    ELSE packet_arrive(wfq_flow(SubSeq(ps, 1, Len(ps) - 1)),
                       ps[Len(ps)].id, ps[Len(ps)].len, ps[Len(ps)].arr)

\* A flow built by FixedLengthFlow::new(len) and one add_packet per packet.
RECURSIVE wrr_flow(_)
wrr_flow(ps) ==
    IF ps = <<>> THEN <<>>
    ELSE fixed_add_packet(wrr_flow(SubSeq(ps, 1, Len(ps) - 1)),
                          ps[Len(ps)].len, ps[Len(ps)].id, ps[Len(ps)].arr)

Pkt(id, len, arr) == [id |-> id, len |-> len, arr |-> arr]

\* drr.rs test::ddr_test
RefDRRLoaded == << <<Pkt(0, 3, 0), Pkt(1, 4, 8)>>,
                   <<Pkt(0, 3, 0), Pkt(1, 1, 12)>>,
                   <<Pkt(0, 6, 0), Pkt(1, 1, 11)>> >>
RefDRRWeights == <<3, 2, 5>>

\* wrr.rs test::wrr_test; the name "pN" is the number N.
RefWRRLoaded == << <<Pkt(1, 1, 0), Pkt(4, 1, 1), Pkt(6, 1, 2), Pkt(8, 1, 4), Pkt(11, 1, 6)>>,
                   <<Pkt(2, 1, 0), Pkt(5, 1, 1), Pkt(9, 1, 5), Pkt(13, 1, 7)>>,
                   <<Pkt(3, 1, 0), Pkt(7, 1, 2), Pkt(10, 1, 5), Pkt(12, 1, 6)>> >>
RefWRRWeights == <<2, 1, 1>>

\* wfq.rs test::wfq_test; the name "pN" is the number N.  The weights
\* 0.5, 0.25, 0.25 are written in units of 0.25: estimate_time depends only
\* on the ratio of a weight to the total, and scaling by a power of two is
\* exact in f64.
RefWFQLoaded == << <<Pkt(1, 1, 0), Pkt(4, 1, 2), Pkt(6, 1, 5)>>,
                   <<Pkt(2, 1, 0), Pkt(5, 1, 3), Pkt(9, 1, 7)>>,
                   <<Pkt(3, 1, 0), Pkt(7, 1, 5), Pkt(8, 1, 6)>> >>
RefWFQWeights == <<2, 1, 1>>

\* A WRR workload whose only packet arrives at the tick of the ceiling.
LateWRRLoaded == << <<Pkt(1, 1, Ceiling)>> >>

\* A WFQ workload in which every flow is backlogged from tick 0.
BacklogWFQLoaded == << <<Pkt(1, 1, 0), Pkt(2, 1, 0), Pkt(3, 1, 0), Pkt(4, 1, 0)>>,
                       <<Pkt(5, 1, 0)>>,
                       <<Pkt(6, 1, 0)>> >>

\* A WRR workload for a flow registered with weight 0.
ZeroWeightWRRLoaded == << <<Pkt(1, 1, 0)>> >>

\* A WRR workload whose second packet arrives two ticks after the first.
GapWRRLoaded == << <<Pkt(1, 1, 0), Pkt(2, 1, 2)>> >>

\* A WFQ workload for two flows, the first registered with weight 0.
ZeroWeightWFQLoaded == << <<Pkt(1, 1, 1)>>, <<Pkt(2, 1, 1)>> >>

\* A WFQ workload of three packets of length 2 for a port of rate 1.
SlowPortWFQLoaded == << <<Pkt(1, 2, 0), Pkt(2, 2, 0), Pkt(3, 2, 0)>> >>

(***************************************************************************)
(* State after construction, add_packet/packet_arrive and add_flow.        *)
(***************************************************************************)
\* DRRScheduler::new(capacity) and add_flow(flow, weight) per flow.
InitDRR(ld, ws, cap) ==
    /\ kind = "DRR"
    /\ pc = "tick"
    /\ i = 1
    /\ timer = 0
    /\ loaded = ld
    /\ flows = [f \in 1..Len(ld) |-> drr_flow(ld[f])]
    /\ weights = ws
    /\ deficit_counters = ws
    /\ current_weight = <<>>
    /\ capacity = cap
    /\ current_load = 0
    /\ history = <<>>
    /\ rate = 0
    /\ in_queue = <<>>
    /\ out_queue = <<>>
    /\ current_processed = 0

\* WRRScheduler::new(bandwidth) and add_flow(flow, weight) per flow.
InitWRR(ld, ws, bandwidth) ==
    /\ kind = "WRR"
    /\ pc = "tick"
    /\ i = 1
    /\ timer = 0
    /\ loaded = ld
    /\ flows = [f \in 1..Len(ld) |-> wrr_flow(ld[f])]
    /\ weights = ws
    /\ deficit_counters = <<>>
    /\ current_weight = ws
    /\ capacity = 0
    /\ current_load = 0
    /\ history = <<>>
    /\ rate = bandwidth
    /\ in_queue = <<>>
    /\ out_queue = <<>>
    /\ current_processed = 0

\* WFQScheduler::new(bandwidth) and add_flow(flow, weight) per flow.
InitWFQ(ld, ws, bandwidth) ==
    /\ kind = "WFQ"
    /\ pc = "tick"
    /\ i = 1
    /\ timer = 0
    /\ loaded = ld
    /\ flows = [f \in 1..Len(ld) |-> wfq_flow(ld[f])]
    /\ weights = ws
    /\ deficit_counters = <<>>
    /\ current_weight = <<>>
    /\ capacity = 0
    /\ current_load = 0
    /\ history = <<>>
    /\ rate = bandwidth
    /\ in_queue = <<>>
    /\ out_queue = <<>>
    /\ current_processed = 0

Init ==
    \/ \E wl \in Workloads, cap \in Capacities :
         \E ws \in [1..Len(wl) -> Weights] : InitDRR(drr_packets(wl), ws, cap)
    \/ InitDRR(RefDRRLoaded, RefDRRWeights, 1)
    \/ \E al \in ArrivalLoads, bw \in Capacities :
         \E ws \in [1..Len(al) -> Weights], plen \in [1..Len(al) -> Lengths] :
            InitWRR(wrr_packets(al, plen), ws, bw)
    \/ InitWRR(RefWRRLoaded, RefWRRWeights, 1)
    \/ InitWRR(LateWRRLoaded, <<1>>, 1)
    \/ InitWRR(ZeroWeightWRRLoaded, <<0>>, 1)
    \/ InitWRR(GapWRRLoaded, <<2>>, 1)
    \/ \E wl \in Workloads, bw \in Capacities :
         \E ws \in [1..Len(wl) -> Weights] : InitWFQ(wfq_packets(wl), ws, bw)
    \/ InitWFQ(RefWFQLoaded, RefWFQWeights, 1)
    \/ InitWFQ(BacklogWFQLoaded, RefWFQWeights, 1)
    \/ InitWFQ(ZeroWeightWFQLoaded, <<0, 1>>, 1)
    \/ InitWFQ(SlowPortWFQLoaded, <<1>>, 1)

(***************************************************************************)
(* DRR (schedulers/drr.rs).                                                *)
(***************************************************************************)
\* DRRTick without `if !self.output_link.empty() { return true; }`.
DRRTick_nogate ==
    /\ kind = "DRR"
    /\ pc = "tick"
    /\ IF all_empty(flows)
       THEN /\ pc' = "done"
            /\ UNCHANGED <<i, timer, current_load>>
       ELSE /\ timer < MaxTimer
            /\ timer' = timer + 1
            /\ current_load' = link_tick(current_load, capacity)
            /\ pc' = "schedule"
            /\ i' = 1
    /\ UNCHANGED <<kind, loaded, flows, weights, deficit_counters, current_weight,
                   capacity, history, rate, in_queue, out_queue, current_processed>>

\* DRRScheduler::tick up to the call of schedule(): returns false (run()
\* returns) when every flow is empty; otherwise advances the timer, ticks
\* the link and, if the link is empty, enters the loop of schedule().
\* The model stops a run at MaxTimer (the code has no ceiling for DRR).
DRRTick ==
    /\ kind = "DRR"
    /\ pc = "tick"
    /\ IF all_empty(flows)
       THEN /\ pc' = "done"
            /\ UNCHANGED <<i, timer, current_load>>
       ELSE /\ timer < MaxTimer
            /\ timer' = timer + 1
            /\ current_load' = link_tick(current_load, capacity)
            /\ IF current_load' # 0
               THEN pc' = "tick" /\ i' = i
               ELSE pc' = "schedule" /\ i' = 1
    /\ UNCHANGED <<kind, loaded, flows, weights, deficit_counters, current_weight,
                   capacity, history, rate, in_queue, out_queue, current_processed>>

\* DRRScheduleStep that stays at a flow after admitting its packet, serving
\* it again while its deficit counter covers the next eligible packet.
DRRScheduleStep_repeat ==
    /\ kind = "DRR"
    /\ pc = "schedule"
    /\ i <= Len(flows)
    /\ LET p == peek_packet(flows[i], timer) IN
         IF p # <<>>
         THEN IF deficit_counters[i] >= p[1].len
              THEN /\ deficit_counters' = [deficit_counters EXCEPT ![i] = @ - p[1].len]
                   /\ current_load' = current_load + p[1].len
                   /\ history' = Append(history, <<i - 1, p[1].id>>)
                   /\ flows' = [flows EXCEPT ![i] = pop_packet(@)]
                   /\ i' = i
              ELSE /\ UNCHANGED <<deficit_counters, current_load, history, flows>>
                   /\ i' = i + 1
         ELSE /\ deficit_counters' = [deficit_counters EXCEPT ![i] = 0]
              /\ UNCHANGED <<current_load, history, flows>>
              /\ i' = i + 1
    /\ UNCHANGED <<kind, pc, timer, loaded, weights, current_weight, capacity,
                   rate, in_queue, out_queue, current_processed>>

\* One iteration of `for i in 0..self.flows.len()` in DRRScheduler::schedule.
DRRScheduleStep ==
    /\ kind = "DRR"
    /\ pc = "schedule"
    /\ i <= Len(flows)
    /\ LET p == peek_packet(flows[i], timer) IN
         IF p # <<>>
         THEN IF deficit_counters[i] >= p[1].len
              THEN /\ deficit_counters' = [deficit_counters EXCEPT ![i] = @ - p[1].len]
                   /\ current_load' = current_load + p[1].len
                   /\ history' = Append(history, <<i - 1, p[1].id>>)
                   /\ IF pop_panics(flows[i])
                      THEN pc' = "pop_panicked" /\ flows' = flows
                      ELSE pc' = pc /\ flows' = [flows EXCEPT ![i] = pop_packet(@)]
              ELSE UNCHANGED <<pc, deficit_counters, current_load, history, flows>>
         ELSE /\ deficit_counters' = [deficit_counters EXCEPT ![i] = 0]
              /\ UNCHANGED <<pc, current_load, history, flows>>
    /\ i' = i + 1
    /\ UNCHANGED <<kind, timer, loaded, weights, current_weight, capacity,
                   rate, in_queue, out_queue, current_processed>>

\* DRRReplenish with `=` for `+=`: unspent deficit is not carried over.
DRRReplenish_reset ==
    /\ kind = "DRR"
    /\ pc = "schedule"
    /\ i > Len(flows)
    /\ deficit_counters' = weights
    /\ pc' = "tick"
    /\ UNCHANGED <<kind, i, timer, loaded, flows, weights, current_weight, capacity,
                   current_load, history, rate, in_queue, out_queue, current_processed>>

\* schedule() returned true: `deficit_counters[i] += weights[i]` for every
\* flow, and tick() returns true.
DRRReplenish ==
    /\ kind = "DRR"
    /\ pc = "schedule"
    /\ i > Len(flows)
    /\ deficit_counters' = [f \in 1..Len(flows) |-> deficit_counters[f] + weights[f]]
    /\ pc' = "tick"
    /\ UNCHANGED <<kind, i, timer, loaded, flows, weights, current_weight, capacity,
                   current_load, history, rate, in_queue, out_queue, current_processed>>

\* A ceiling check that is one tick late.
timer_exceeded_late(t) == t > Ceiling + 1

\* WRRScheduler::tick: `if self.timer > 100 { panic!("Timer exceeded") }`.
timer_exceeded(t) == t > Ceiling

(***************************************************************************)
(* WRR (schedulers/wrr.rs).                                                *)
(***************************************************************************)
\* wrr_schedule that returns false at the end of the scan: the quanta are
\* never reset.
RECURSIVE wrr_schedule_noreset(_, _, _, _)
wrr_schedule_noreset(fl, cw, time, idx) ==
    IF idx > Len(fl) THEN [served |-> 0, ret |-> FALSE]
    ELSE IF fl[idx] = <<>> THEN wrr_schedule_noreset(fl, cw, time, idx + 1)
    ELSE IF cw[idx] > 0
         THEN [served |-> IF peek_packet(fl[idx], time) # <<>> THEN idx ELSE 0,
               ret |-> FALSE]
         ELSE wrr_schedule_noreset(fl, cw, time, idx + 1)

\* wrr_schedule that serves a flow whose quantum is 0.
RECURSIVE wrr_schedule_ge(_, _, _, _)
wrr_schedule_ge(fl, cw, time, idx) ==
    IF idx > Len(fl) THEN [served |-> 0, ret |-> TRUE]
    ELSE IF fl[idx] = <<>> THEN wrr_schedule_ge(fl, cw, time, idx + 1)
    ELSE IF cw[idx] >= 0
         THEN [served |-> IF peek_packet(fl[idx], time) # <<>> THEN idx ELSE 0,
               ret |-> FALSE]
         ELSE wrr_schedule_ge(fl, cw, time, idx + 1)

\* WRRScheduler::schedule, the scan from flow idx on.  served is the flow
\* whose head packet is popped and submitted (0: none), ret the returned
\* bool (true: reset the quanta).
RECURSIVE wrr_schedule(_, _, _, _)
wrr_schedule(fl, cw, time, idx) ==
    IF idx > Len(fl) THEN [served |-> 0, ret |-> TRUE]
    ELSE IF fl[idx] = <<>> THEN wrr_schedule(fl, cw, time, idx + 1)
    ELSE IF cw[idx] > 0
         THEN [served |-> IF peek_packet(fl[idx], time) # <<>> THEN idx ELSE 0,
               ret |-> FALSE]
         ELSE wrr_schedule(fl, cw, time, idx + 1)

\* WRRScheduler::tick: returns false when every flow is empty (run() then
\* calls proceed_rest); otherwise schedules, advances the timer, ticks the
\* port and panics if the timer is above the ceiling.
WRRTick ==
    /\ kind = "WRR"
    /\ pc = "tick"
    /\ IF all_empty(flows)
       THEN /\ pc' = "rest"
            /\ UNCHANGED <<timer, flows, current_weight, in_queue, out_queue,
                           current_processed>>
       ELSE LET s == wrr_schedule(flows, current_weight, timer, 1)
                inq == IF s.served # 0
                       THEN submit(in_queue, port_packet(Head(flows[s.served])))
                       ELSE in_queue
                port == port_tick(inq, out_queue, current_processed, rate)
            IN IF s.served # 0 /\ pop_panics(flows[s.served])
               THEN /\ pc' = "pop_panicked"
                    /\ UNCHANGED <<timer, flows, current_weight, in_queue, out_queue,
                                   current_processed>>
               ELSE
               /\ flows' = IF s.served # 0
                           THEN [flows EXCEPT ![s.served] = pop_packet(@)]
                           ELSE flows
               /\ current_weight' =
                     IF s.ret THEN weights
                     ELSE IF s.served # 0
                          THEN [current_weight EXCEPT ![s.served] = @ - 1]
                          ELSE current_weight
               /\ timer' = timer + 1
               /\ in_queue' = port.in_queue
               /\ out_queue' = port.out_queue
               /\ current_processed' = port.current_processed
               /\ pc' = IF timer_exceeded(timer') THEN "panicked" ELSE "tick"
    /\ UNCHANGED <<kind, i, loaded, weights, deficit_counters, capacity,
                   current_load, history, rate>>

(***************************************************************************)
(* WFQ (schedulers/wfq.rs).                                                *)
(***************************************************************************)
\* f64 values are the pairs <<numerator, denominator>>; <<1, 0>> is
\* f64::INFINITY.  The values compared are ratios of small integers, far
\* apart relative to f64 rounding.
INFINITY == <<1, 0>>
f64_lt(a, b) == a[1] * b[2] < b[1] * a[2]
f64_eq(a, b) == a[1] * b[2] = b[1] * a[2]

\* WFQScheduler::add_flow: total_weight += weight, once per flow.
RECURSIVE total_weight(_)
total_weight(ws) == IF ws = <<>> THEN 0 ELSE Head(ws) + total_weight(Tail(ws))

\* An estimate that multiplies the length by the flow's share.
estimate_time_mul(ws, idx, packet) == <<packet.len * ws[idx], total_weight(ws)>>

\* WFQScheduler::estimate_time: len / (weights[idx] / total_weight).
estimate_time(ws, idx, packet) == <<packet.len * total_weight(ws), ws[idx]>>

\* The loop of WFQScheduler::schedule from flow idx on: the set of final
\* <<min_time, min_flow_idx>> over the outcomes of rand::random().
RECURSIVE wfq_scan(_, _, _, _, _, _)
wfq_scan(fl, ws, time, idx, min_time, min_flow_idx) ==
    IF idx > Len(fl) THEN {<<min_time, min_flow_idx>>}
    ELSE IF fl[idx] = <<>> THEN wfq_scan(fl, ws, time, idx + 1, min_time, min_flow_idx)
    ELSE LET p == peek_packet(fl[idx], time) IN
         IF p = <<>> THEN wfq_scan(fl, ws, time, idx + 1, min_time, min_flow_idx)
         ELSE LET t == estimate_time(ws, idx, p[1]) IN
              IF f64_lt(t, min_time) THEN wfq_scan(fl, ws, time, idx + 1, t, idx)
              ELSE IF f64_eq(t, min_time)
                   THEN wfq_scan(fl, ws, time, idx + 1, min_time, idx)
                        \cup wfq_scan(fl, ws, time, idx + 1, min_time, min_flow_idx)
                   ELSE wfq_scan(fl, ws, time, idx + 1, min_time, min_flow_idx)

\* A schedule that returns its index without looking at min_time.
wfq_schedule_noinf(fl, ws, time) ==
    {r[2] : r \in wfq_scan(fl, ws, time, 1, INFINITY, 1)}

\* WFQScheduler::schedule: the flows it may return (0: None).
wfq_schedule(fl, ws, time) ==
    {IF f64_eq(r[1], INFINITY) THEN 0 ELSE r[2] : r \in wfq_scan(fl, ws, time, 1, INFINITY, 1)}

\* WFQScheduler::tick.  The model stops a run at MaxTimer (the code has no
\* ceiling for WFQ).
WFQTick ==
    /\ kind = "WFQ"
    /\ pc = "tick"
    /\ IF all_empty(flows)
       THEN /\ pc' = "rest"
            /\ UNCHANGED <<timer, flows, in_queue, out_queue, current_processed>>
       ELSE \E idx \in wfq_schedule(flows, weights, timer) :
            LET inq == IF idx # 0
                       THEN submit(in_queue, port_packet(Head(flows[idx])))
                       ELSE in_queue
                port == port_tick(inq, out_queue, current_processed, rate)
            IN IF idx # 0 /\ pop_panics(flows[idx])
               THEN /\ pc' = "pop_panicked"
                    /\ UNCHANGED <<timer, flows, in_queue, out_queue, current_processed>>
               ELSE
               /\ timer < MaxTimer
               /\ flows' = IF idx # 0 THEN [flows EXCEPT ![idx] = pop_packet(@)]
                           ELSE flows
               /\ timer' = timer + 1
               /\ in_queue' = port.in_queue
               /\ out_queue' = port.out_queue
               /\ current_processed' = port.current_processed
               /\ pc' = "tick"
    /\ UNCHANGED <<kind, i, loaded, weights, deficit_counters, current_weight,
                   capacity, current_load, history, rate>>

\* run() of WRR and WFQ after the tick loop: output_port.proceed_rest().
ProceedRest ==
    /\ pc = "rest"
    /\ LET port == proceed_rest(in_queue, out_queue)
       IN /\ in_queue' = port.in_queue
          /\ out_queue' = port.out_queue
          /\ current_processed' = port.current_processed
    /\ pc' = "done"
    /\ UNCHANGED <<kind, i, timer, loaded, flows, weights, deficit_counters,
                   current_weight, capacity, current_load, history, rate>>

Next ==
    \/ DRRTick
    \/ DRRScheduleStep
    \/ DRRReplenish
    \/ WRRTick
    \/ WFQTick
    \/ ProceedRest

Spec == Init /\ [][Next]_vars

(***************************************************************************)
(* Properties.                                                             *)
(***************************************************************************)
RECURSIVE Concat(_)
Concat(ss) == IF ss = <<>> THEN <<>> ELSE Head(ss) \o Concat(Tail(ss))

Occ(x, s) == Cardinality({k \in 1..Len(s) : s[k] = x})

\* s and t hold the same elements, each the same number of times.
SameBag(s, t) == Len(s) = Len(t) /\ \A k \in 1..Len(s) : Occ(s[k], s) = Occ(s[k], t)

\* The packets of per-flow queues as DRR history entries / as port packets.
HistoryItems(qs) ==
    Concat([f \in 1..Len(qs) |-> [k \in 1..Len(qs[f]) |-> <<f - 1, qs[f][k].id>>]])
PortItems(qs) ==
    Concat([f \in 1..Len(qs) |-> [k \in 1..Len(qs[f]) |-> port_packet(qs[f][k])]])

Returned == pc = "done"

\* C1: conservation.  In every state each loaded packet is in exactly one
\* place (its flow queue, the port's in_queue, or the departure history),
\* and when run() has returned the departure history holds exactly the
\* loaded packets, each once.
Conservation ==
    /\ kind = "DRR" =>
         /\ SameBag(HistoryItems(loaded), HistoryItems(flows) \o history)
         /\ Returned => SameBag(HistoryItems(loaded), history)
    /\ kind \in {"WRR", "WFQ"} =>
         /\ SameBag(PortItems(loaded), PortItems(flows) \o in_queue \o out_queue)
         /\ Returned => SameBag(PortItems(loaded), out_queue)

\* A WRR run that returned with two packets departed, one of them moved out
\* by proceed_rest or by the port's tick.
ConservationWitness ==
    /\ kind = "WRR"
    /\ Returned
    /\ Len(out_queue) >= 2
    /\ Len(loaded) = 2

\* Position of insertion into flow f of the packet named id.
PosOf(f, id) == CHOOSE k \in 1..Len(loaded[f]) : loaded[f][k].id = id

\* The packets of flow f in the departure history, in departure order, as
\* positions of insertion.
Departed(f) ==
    IF kind = "DRR"
    THEN LET h == SelectSeq(history, LAMBDA e : e[1] = f - 1)
         IN [k \in 1..Len(h) |-> PosOf(f, h[k][2])]
    ELSE LET o == SelectSeq(out_queue,
                            LAMBDA e : \E k \in 1..Len(loaded[f]) : loaded[f][k].id = e.id)
         IN [k \in 1..Len(o) |-> PosOf(f, o[k].id)]

\* Packet a of flow f is due before packet b: it arrives earlier, or at the
\* same time and was inserted earlier.
Before(f, a, b) ==
    \/ loaded[f][a].arr < loaded[f][b].arr
    \/ loaded[f][a].arr = loaded[f][b].arr /\ a < b

\* C2: per-flow FIFO.  In every state, for two packets of one flow, the one
\* with the smaller arrival time (at equal arrival times, the one inserted
\* first) is earlier in the departure history: two departed packets are in
\* that order, and a departed packet is due before every packet of its flow
\* that has not departed.
PerFlowFIFO ==
    \A f \in 1..Len(loaded) :
        LET d == Departed(f) IN
        /\ \A a, b \in 1..Len(d) : a < b => Before(f, d[a], d[b])
        /\ \A a \in 1..Len(d), k \in 1..Len(loaded[f]) :
              (\A b \in 1..Len(d) : d[b] # k) => Before(f, d[a], k)

\* A DRR run that returned after serving a flow whose two packets were
\* inserted against their arrival order.
PerFlowFIFOWitness ==
    /\ kind = "DRR"
    /\ Returned
    /\ \E f \in 1..Len(loaded) :
          /\ Len(loaded[f]) = 2
          /\ loaded[f][1].arr > loaded[f][2].arr
          /\ Len(Departed(f)) = 2

\* A DRR state from which run() never returns: some flow is not empty and
\* the link holds a load smaller than its capacity, which OutputLink::tick
\* leaves as it is, so every later tick returns true before schedule().
DRRStuck ==
    /\ kind = "DRR"
    /\ pc = "tick"
    /\ ~all_empty(flows)
    /\ 0 < current_load
    /\ current_load < capacity

\* C3: DRR termination.  run() terminates (no state is one it never returns
\* from), and when it has returned every flow queue is empty and the output
\* link is empty.
DRRTerminatesDrained ==
    kind = "DRR" =>
        /\ ~DRRStuck
        /\ Returned => all_empty(flows) /\ current_load = 0

\* C4: WRR termination.  run() does not abort, and when it has returned
\* every flow queue and the port's input queue are empty.
WRRReturnsNormally ==
    (kind = "WRR" /\ \A f \in 1..Len(weights) : weights[f] >= 1) =>
        /\ pc # "panicked"
        /\ Returned => all_empty(flows) /\ in_queue = <<>>

IsRefDRR ==
    kind = "DRR" /\ loaded = RefDRRLoaded /\ weights = RefDRRWeights /\ capacity = 1

\* C5: the DRR reference scenario (capacity 1, weights 3, 2, 5) returns
\* with timer = 15 and history (0,0),(1,0),(2,0),(1,1),(2,1),(0,1); the
\* run never goes past tick 15.
DRRReference ==
    IsRefDRR =>
        /\ timer <= 15
        /\ Returned =>
              /\ timer = 15
              /\ history = << <<0, 0>>, <<1, 0>>, <<2, 0>>, <<1, 1>>, <<2, 1>>, <<0, 1>> >>

DRRReferenceWitness == IsRefDRR /\ Returned /\ Len(history) = 6

IsRefWRR ==
    kind = "WRR" /\ loaded = RefWRRLoaded /\ weights = RefWRRWeights /\ rate = 1

NamedLen1(names) == [k \in 1..Len(names) |-> [id |-> names[k], len |-> 1]]

\* C6: the WRR reference scenario (bandwidth 1, length 1, weights 2, 1, 1)
\* returns, without abort, with timer = 16 and the 13 packets in the order
\* p1,p4,p2,p3,p6,p8,p5,p7,p11,p9,p10,p13,p12.
WRRReference ==
    IsRefWRR =>
        /\ pc # "panicked"
        /\ timer <= 16
        /\ Returned =>
              /\ timer = 16
              /\ out_queue = NamedLen1(<<1, 4, 2, 3, 6, 8, 5, 7, 11, 9, 10, 13, 12>>)

WRRReferenceWitness == IsRefWRR /\ Returned /\ Len(out_queue) = 13

IsRefWFQ ==
    kind = "WFQ" /\ loaded = RefWFQLoaded /\ weights = RefWFQWeights /\ rate = 1

\* C7: the WFQ reference scenario (bandwidth 1, weights 0.5, 0.25, 0.25)
\* returns with timer = 9 and the 9 packets in the order
\* p1,p2,p4,p3,p5,p6,p7,p8,p9, whatever the tie-break choices.
WFQReference ==
    (IsRefWFQ /\ Returned) =>
        /\ timer = 9
        /\ out_queue = NamedLen1(<<1, 2, 4, 3, 5, 6, 7, 8, 9>>)

\* C8: DRR round cap.  In the loop of schedule() a step admits at most one
\* packet, the packet is of the flow the loop is at, and the loop then moves
\* on to the next flow: a flow is admitted at most once per round, whatever
\* its deficit counter and however many eligible packets it holds.
DRRRoundCap ==
    [][kind = "DRR" =>
          /\ Len(history') <= Len(history) + 1
          /\ history' # history =>
                /\ pc = "schedule" /\ pc' = "schedule"
                /\ history'[Len(history')][1] = i - 1
                /\ i' = i + 1
          /\ (pc = "schedule" /\ pc' = "schedule") => i' = i + 1]_vars

\* In the first round, flow 0 has had a packet admitted and still holds an
\* eligible packet that its deficit counter covers.
DRRRoundCapWitness ==
    /\ kind = "DRR"
    /\ pc = "schedule"
    /\ timer = 1
    /\ i = 2
    /\ Len(history) = 1
    /\ peek_packet(flows[1], timer) # <<>>
    /\ deficit_counters[1] >= Head(flows[1]).len

\* Total length of the packets of a queue.
RECURSIVE SumLen(_)
SumLen(q) == IF q = <<>> THEN 0 ELSE Head(q).len + SumLen(Tail(q))

\* Largest packet length loaded.
MaxLoadedLen ==
    LET ls == UNION {{loaded[f][k].len : k \in 1..Len(loaded[f])} : f \in 1..Len(loaded)}
    IN CHOOSE m \in ls \cup {0} : \A l \in ls : l <= m

\* Total length admitted from flow f so far.
Served(f) == SumLen(loaded[f]) - SumLen(flows[f])

Abs(x) == IF x < 0 THEN -x ELSE x

\* Every packet arrives at tick 0 and no flow is empty: every flow has had
\* an eligible head packet at every tick from tick 0 to now.
BackloggedSinceStart ==
    /\ \A f \in 1..Len(loaded) : \A k \in 1..Len(loaded[f]) : loaded[f][k].arr = 0
    /\ \A f \in 1..Len(flows) : flows[f] # <<>>

\* C9: WFQ fairness bound, for the interval from tick 0 to now.  If all
\* flows were backlogged throughout, the length admitted from flow f differs
\* from weight_f / total_weight of the length admitted from all flows by at
\* most one maximum packet length (both sides multiplied by total_weight).
WFQFairness ==
    (kind = "WFQ" /\ BackloggedSinceStart) =>
        \A f \in 1..Len(flows) :
            Abs(Served(f) * total_weight(weights)
                - weights[f] * (SumLen(Concat(loaded)) - SumLen(Concat(flows))))
              <= MaxLoadedLen * total_weight(weights)

\* Every loaded packet is no longer than the port's rate.
LensFit == \A f \in 1..Len(loaded) : \A k \in 1..Len(loaded[f]) : loaded[f][k].len <= rate

\* C10 as stated: in DRR a packet is added to the link only in a state where
\* current_load is 0, and in WRR a packet is submitted to the port only in a
\* state where in_queue is empty.
NoSubmitToBusy ==
    [][/\ (kind = "DRR" /\ history' # history) => current_load = 0
       /\ (kind = "WRR" /\ flows' # flows) => in_queue = <<>>]_vars

\* C10 amended: in DRR packets are added to the link only inside a
\* scheduling round, and a round starts only in a state where current_load
\* is 0; in WRR with no packet longer than the bandwidth, a packet is
\* submitted only in a state where in_queue is empty.
SubmitGate ==
    [][/\ kind = "DRR" =>
             /\ history' # history => pc = "schedule"
             /\ (pc = "tick" /\ pc' = "schedule") => current_load' = 0
       /\ (kind = "WRR" /\ LensFit /\ flows' # flows) => in_queue = <<>>]_vars

\* Two packets admitted in the first DRR round: the second was added to a
\* link that held the first.
SubmitGateWitness ==
    /\ kind = "DRR"
    /\ pc = "schedule"
    /\ timer = 1
    /\ Len(history) = 2
    /\ current_load > 0

(***************************************************************************)
(* C11: the WRR ceiling.  In every WRR run, including runs with a weight   *)
(* of 0, the timer never passes Ceiling + 1; the run is aborted exactly in *)
(* the states whose timer is above Ceiling, so no state that is not        *)
(* aborted has a timer above Ceiling; an aborted run executes no further   *)
(* tick; and a run that has neither returned nor aborted can take a step.  *)
(***************************************************************************)
WRRCeiling ==
    kind = "WRR" =>
        /\ timer <= Ceiling + 1
        /\ (timer > Ceiling <=> pc = "panicked")
        /\ (pc = "panicked" => ~ENABLED WRRTick)
        /\ (pc \in {"done", "panicked"} \/ ENABLED Next)

\* The run of a flow of weight 0 has been aborted at the ceiling.
WRRCeilingWitness ==
    /\ kind = "WRR"
    /\ weights = <<0>>
    /\ pc = "panicked"
    /\ timer = Ceiling + 1
    /\ ~all_empty(flows)

(***************************************************************************)
(* C12: the WRR service rule.  In every WRR tick in which at least one     *)
(* flow has a quantum above 0 and a head packet that has arrived, the      *)
(* lowest-index such flow is served: its quantum drops by 1, its head is   *)
(* popped, and no other flow is popped.                                    *)
(***************************************************************************)
WRRCandidates ==
    {f \in 1..Len(flows) :
        current_weight[f] > 0 /\ peek_packet(flows[f], timer) # <<>>}

WRRLowest == CHOOSE f \in WRRCandidates : \A g \in WRRCandidates : f <= g

WRRServiceRule ==
    [][(kind = "WRR" /\ pc = "tick" /\ WRRCandidates # {})
          => /\ flows' = [flows EXCEPT ![WRRLowest] = Tail(@)]
             /\ current_weight'[WRRLowest] = current_weight[WRRLowest] - 1]_vars

(***************************************************************************)
(* C13: the WRR quota reset.  In every WRR tick with at least one flow     *)
(* that is not drained and in which no flow is served, every flow's        *)
(* quantum equals its weight at the end of the tick.                       *)
(***************************************************************************)
WRRQuotaReset ==
    [][(kind = "WRR" /\ pc = "tick" /\ ~all_empty(flows)
          /\ timer' = timer + 1 /\ flows' = flows)
          => current_weight' = weights]_vars

(***************************************************************************)
(* C14: the WFQ selection.  With positive weights, in every WFQ tick in    *)
(* which at least one flow has a head packet that has arrived, exactly one *)
(* flow is popped, its head has arrived and its estimate                   *)
(* len * total_weight / weight is at most that of every other flow with an *)
(* arrived head (ties broken either way); in a tick in which no flow has   *)
(* an arrived head nothing is popped.                                      *)
(***************************************************************************)
WFQEligible == {f \in 1..Len(flows) : peek_packet(flows[f], timer) # <<>>}

WFQSelection ==
    [][(kind = "WFQ" /\ pc = "tick" /\ \A f \in 1..Len(weights) : weights[f] >= 1)
          => IF WFQEligible # {}
             THEN \E f \in WFQEligible :
                     /\ flows' = [flows EXCEPT ![f] = Tail(@)]
                     /\ \A g \in WFQEligible :
                           Head(flows[f]).len * weights[g]
                              <= Head(flows[g]).len * weights[f]
             ELSE flows' = flows]_vars

\* Two flows of weights 1 and 2 with equally long heads that have both
\* arrived: after the first tick the heavier flow has been popped.
WFQSelectionWitness ==
    /\ kind = "WFQ"
    /\ timer = 1
    /\ weights = <<1, 2>>
    /\ Len(loaded) = 2
    /\ Len(loaded[1]) = 1 /\ Len(loaded[2]) = 1
    /\ loaded[1][1].arr = 0 /\ loaded[2][1].arr = 0
    /\ loaded[1][1].len = loaded[2][1].len
    /\ flows = <<loaded[1], <<>>>>

(***************************************************************************)
(* C15: WFQ submits without looking at the port.  In every WFQ tick in     *)
(* which a flow of positive weight has a head packet that has arrived,     *)
(* exactly one packet is popped and submitted to the port, whatever the    *)
(* port still holds; and the timer advances by exactly 1 in every tick     *)
(* that does not end the run.  States whose in_queue holds more than one   *)
(* packet are reached when a packet is longer than the bandwidth.          *)
(***************************************************************************)
WFQSubmitsRegardless ==
    [][(kind = "WFQ" /\ pc = "tick" /\ ~all_empty(flows))
          => /\ timer' = timer + 1
             /\ (\E f \in WFQEligible : weights[f] >= 1)
                   => \E f \in WFQEligible :
                         /\ flows' = [flows EXCEPT ![f] = Tail(@)]
                         /\ out_queue' \o in_queue'
                               = (out_queue \o in_queue)
                                    \o <<port_packet(Head(flows[f]))>>]_vars

\* The port holds two unfinished packets, the first longer than the bandwidth.
WFQSubmitsRegardlessWitness ==
    /\ kind = "WFQ"
    /\ Len(in_queue) > 1
    /\ Head(in_queue).len > rate
    /\ current_processed > 0

(***************************************************************************)
(* C16: the link drain.  Every tick of the DRR output link sets            *)
(* current_load to max(current_load - capacity, 0).                        *)
(***************************************************************************)
Max(a, b) == IF a >= b THEN a ELSE b

LinkTickFloors ==
    [][(kind = "DRR" /\ pc = "tick" /\ timer' = timer + 1)
          => current_load' = Max(current_load - capacity, 0)]_vars

(***************************************************************************)
(* C17: the DRR busy tick.  In every DRR tick after whose link tick the    *)
(* link is still loaded, no flow queue, deficit counter or history entry   *)
(* changes: only the timer (by one) and current_load change, no scheduling *)
(* round is started, and the tick reports that the run continues.          *)
(***************************************************************************)
DRRBusyTickFrame ==
    [][(kind = "DRR" /\ pc = "tick" /\ timer' = timer + 1 /\ current_load' # 0)
          => /\ pc' = "tick"
             /\ current_load' = link_tick(current_load, capacity)
             /\ UNCHANGED <<flows, deficit_counters, history, weights, capacity,
                            loaded, in_queue, out_queue>>]_vars

\* A packet of length 2 was admitted to a link of capacity 1 in the first
\* tick; the second tick left the link loaded and the other flows waiting.
DRRBusyTickFrameWitness ==
    /\ kind = "DRR"
    /\ pc = "tick"
    /\ timer = 2
    /\ capacity = 1
    /\ current_load = 1
    /\ Len(history) = 1
    /\ SumLen(Concat(loaded)) - SumLen(Concat(flows)) = 2
    /\ ~all_empty(flows)

(***************************************************************************)
(* C18: no admission before arrival.  In DRR, WRR and WFQ a packet is      *)
(* popped from its flow only in a tick whose timer, as used for the        *)
(* decision, is at least the packet's arrival time.                        *)
(***************************************************************************)
NoEarlyAdmission ==
    [][\A f \in 1..Len(flows) :
          flows'[f] # flows[f]
             => /\ flows[f] # <<>>
                /\ flows'[f] = Tail(flows[f])
                /\ Head(flows[f]).arr <= timer]_vars

\* A WRR flow whose first packet arrives at time 1 has had it popped, in the
\* tick of timer 1.
NoEarlyAdmissionWitness ==
    /\ kind = "WRR"
    /\ timer = 2
    /\ \E f \in 1..Len(flows) :
          /\ loaded[f] # <<>>
          /\ wrr_flow(loaded[f])[1].arr = 1
          /\ flows[f] = Tail(wrr_flow(loaded[f]))
          /\ \A g \in 1..Len(flows) : g # f => flows[g] = wrr_flow(loaded[g])

(***************************************************************************)
(* C19: no pop from an empty flow.  In every scheduler, for every          *)
(* workload, weight vector and tie-break, no pop is applied to an empty    *)
(* flow: every pop removes the head of a flow whose peek has succeeded in  *)
(* the same tick, with no other pop of that flow in between.               *)
(***************************************************************************)
NoEmptyPop ==
    [][/\ pc' # "pop_panicked"
       /\ \A f \in 1..Len(flows) :
             flows'[f] # flows[f]
                => /\ ~pop_panics(flows[f])
                   /\ peek_packet(flows[f], timer) # <<>>
                   /\ flows'[f] = Tail(flows[f])]_vars

\* A WFQ run in which the first flow has been drained by pops while the
\* second still holds packets: the next tick scans past the empty flow.
NoEmptyPopWitness ==
    /\ kind = "WFQ"
    /\ pc = "tick"
    /\ Len(flows) = 2
    /\ loaded[1] # <<>>
    /\ flows[1] = <<>>
    /\ flows[2] # <<>>

(***************************************************************************)
(* C20: the WRR quota bound.  In every state of a WRR run each flow's      *)
(* quantum is between 0 and its weight; a flow is popped only with a       *)
(* quantum of at least 1, which the pop lowers by 1, and a quantum changes *)
(* otherwise only by a reset of all quanta to the weights: between two     *)
(* resets a flow of weight w has at most w packets admitted.               *)
(***************************************************************************)
WRRQuotaBound ==
    [][kind = "WRR"
          => \A f \in 1..Len(flows) :
                /\ 0 <= current_weight[f] /\ current_weight[f] <= weights[f]
                /\ 0 <= current_weight'[f] /\ current_weight'[f] <= weights[f]
                /\ flows'[f] # flows[f]
                     => /\ current_weight[f] >= 1
                        /\ current_weight'[f] = current_weight[f] - 1
                /\ flows'[f] = flows[f]
                     => \/ current_weight'[f] = current_weight[f]
                        \/ current_weight' = weights]_vars

\* A flow has used up its quantum while its next packet has arrived.
WRRQuotaBoundWitness ==
    /\ kind = "WRR"
    /\ pc = "tick"
    /\ \E f \in 1..Len(flows) :
          /\ weights[f] >= 1
          /\ current_weight[f] = 0
          /\ peek_packet(flows[f], timer) # <<>>

====
